---- MODULE Spec2Model ----
(***************************************************************************)
(* flag-exorcist: the analyzer of flagexorcist/flag_exorcist.go.            *)
(*                                                                         *)
(* A run (runner.run) opens the git repository, collects the identifiers   *)
(* whose name is a configured flag symbol (findFlagIdents), sorts them     *)
(* into declarations and usages (isDeclaration), asks the history for the  *)
(* commit time of each declared symbol (timeCommitted) and reports every   *)
(* usage of a symbol committed before now - Cutoff.                        *)
(*                                                                         *)
(* Text (a file's contents, a symbol, an identifier's name) is a sequence  *)
(* of characters; a path is a sequence of path components; a time is an    *)
(* integer, 0 being Go's zero time.Time; no commit has the zero time as its *)
(* author time.  A repository holds at least one commit (repo.Log panics   *)
(* on one without HEAD).                                                   *)
(***************************************************************************)
EXTENDS Integers, Sequences, FiniteSets, TLC

VARIABLES
    repo,        \* the git repository at cfg.RepoPath: the commits reachable from HEAD
    cfg,         \* runner.cfg: FlagSymbols, Cutoff (RepoPath is fixed)
    unit,        \* the *ast.Ident nodes of the analysed package, in Preorder
    pc,          \* where the run is: "idle", "classify", "evaluate", "done"
    loc,         \* the locals of run: identifiers, next, declarationCommitTimes,
                 \* usagesByFlag, todo (the map entries the range loop has left)
    reported,    \* the diagnostics of the current pass, in the order of pass.Reportf
    clock,       \* the latest wall-clock time a time.Now() has returned
    pass,        \* how many times the driver has called run
    trace,       \* observation: the history walks made, the clock read per symbol
    query,       \* a single call timeCommitted(repo, symbol, pos), or NoQuery
    answer,      \* what that call returned, or Pending
    probe,       \* a single identifier with the spec it is bound to, or NoProbe
    verdict      \* what isDeclaration returned for it, or Pending

vars == <<repo, cfg, unit, pc, loc, reported, clock, pass, trace,
          query, answer, probe, verdict>>

----------------------------------------------------------------------------
(* Bounds of the model *)

\* the longest history drawn
MaxCommits == 3
\* author timestamps are drawn from 1..MaxWhen
MaxWhen == 2
\* the most flag identifiers a package holds
MaxIdents == 2
\* the latest time the wall clock shows; it starts at 2, the time of HEAD
MaxClock == 3
\* the most passes the driver runs over the package
MaxPasses == 2
\* the longest name list of a declaring spec
MaxNames == 3

----------------------------------------------------------------------------
(* Text *)

\* strings.Contains(s, substr)
Contains(s, substr) ==
    \E i \in 0..(Len(s) - Len(substr)) :
        \A k \in 1..Len(substr) : s[i + k] = substr[k]

\* strings.TrimPrefix(s, prefix), on paths: prefix is RepoPath + "/"
TrimPrefix(s, prefix) ==
    IF Len(prefix) <= Len(s) /\ SubSeq(s, 1, Len(prefix)) = prefix
    THEN SubSeq(s, Len(prefix) + 1, Len(s))
    ELSE s

\* the two flag symbols of the model; FlagA is a substring of FlagB
FlagA == <<"f">>
FlagB == <<"f", "g">>
\* text that holds FlagA only, both flags
TextA == <<"h", "f">>
TextAB == <<"f", "g", "h">>

\* cfg.RepoPath after filepath.Abs
RepoPath == <<"home", "repo">>
FileOne == <<"one.go">>
FileTwo == <<"pkg", "two.go">>

----------------------------------------------------------------------------
(* Options: mo.Option[time.Time] *)

None == [some |-> FALSE, val |-> 0]
Some(t) == [some |-> TRUE, val |-> t]
\* Option.OrEmpty: the zero time.Time when absent
OrEmpty(o) == IF o.some THEN o.val ELSE 0
\* Time.IsZero
IsZero(t) == t = 0

----------------------------------------------------------------------------
(* The repository: commits 1..Len(repo), HEAD at commit 1.  A commit is      *)
(* [When, Parents, FilesErr, Files]: its author time, its parents in order,  *)
(* whether commit.Files() fails, and its files [Name, Err, Text] in tree     *)
(* order, Err saying that file.Contents() fails.                             *)

NoFile == [Name |-> <<>>, Err |-> FALSE, Text |-> <<>>, found |-> FALSE]
File(name, err, text) == [Name |-> name, Err |-> err, Text |-> text, found |-> TRUE]

\* The iterator behind repo.Log(&git.LogOptions{}): go-git's default order, a
\* depth-first pre-order from HEAD that follows the parents in their order and
\* skips a commit it has seen.  stack holds the parent lists still to be read.
RECURSIVE PreorderIter(_, _, _, _)
PreorderIter(commits, stack, seen, out) ==
    IF stack = <<>> THEN out
    ELSE LET top == stack[Len(stack)] IN
         IF top = <<>>
         THEN PreorderIter(commits, SubSeq(stack, 1, Len(stack) - 1), seen, out)
         ELSE LET c == Head(top)
                  rest == [stack EXCEPT ![Len(stack)] = Tail(top)]
                  seen2 == seen \cup {c}
                  unseen == SelectSeq(commits[c].Parents, LAMBDA p : p \notin seen2)
              IN  IF c \in seen
                  THEN PreorderIter(commits, rest, seen, out)
                  ELSE PreorderIter(commits,
                                    IF commits[c].Parents # <<>>
                                    THEN Append(rest, unseen) ELSE rest,
                                    seen2, Append(out, c))

\* the commits in the order iter.ForEach hands them to the callback
Log(commits) == IF commits = <<>> THEN <<>> ELSE PreorderIter(commits, << <<1>> >>, {}, <<>>)

\* the inner iter.ForEach over the commit's files: the first file named
\* searchFileName, or none
RECURSIVE FindFile(_, _, _)
FindFile(files, k, searchFileName) ==
    IF k > Len(files) THEN NoFile
    ELSE IF files[k].Name = searchFileName THEN files[k]
    ELSE FindFile(files, k + 1, searchFileName)

\* the callback, were it to keep the first time it finds
VisitKeepsNewest(commit, symbol, pos, timestamp) ==
    LET searchFileName == TrimPrefix(pos.Filename, RepoPath)
        file == FindFile(commit.Files, 1, searchFileName)
    IN  IF commit.FilesErr THEN [err |-> TRUE, timestamp |-> timestamp]
        ELSE IF ~file.found THEN [err |-> FALSE, timestamp |-> timestamp]
        ELSE IF file.Err THEN [err |-> TRUE, timestamp |-> timestamp]
        ELSE IF Contains(file.Text, symbol) /\ ~timestamp.some
             THEN [err |-> FALSE, timestamp |-> Some(commit.When)]
        ELSE [err |-> FALSE, timestamp |-> timestamp]

\* The callback of iter.ForEach, one commit: [err, timestamp] says whether it
\* returned an error and what the captured variable timestamp holds after it.
Visit(commit, symbol, pos, timestamp) ==
    LET searchFileName == TrimPrefix(pos.Filename, RepoPath)
        file == FindFile(commit.Files, 1, searchFileName)
    IN  IF commit.FilesErr THEN [err |-> TRUE, timestamp |-> timestamp]
        ELSE IF ~file.found THEN [err |-> FALSE, timestamp |-> timestamp]
        ELSE IF file.Err THEN [err |-> TRUE, timestamp |-> timestamp]
        ELSE IF Contains(file.Text, symbol)
             THEN [err |-> FALSE, timestamp |-> Some(commit.When)]
        ELSE [err |-> FALSE, timestamp |-> timestamp]

\* iter.ForEach(callback) from the k-th commit of the log on: it stops at the
\* first error the callback returns
RECURSIVE ForEach(_, _, _, _, _, _)
ForEach(commits, order, k, symbol, pos, timestamp) ==
    IF k > Len(order) THEN timestamp
    ELSE LET r == Visit(commits[order[k]], symbol, pos, timestamp)
         IN  IF r.err THEN r.timestamp
             ELSE ForEach(commits, order, k + 1, symbol, pos, r.timestamp)

\* runner.timeCommitted
timeCommitted(commits, symbol, pos) ==
    ForEach(commits, Log(commits), 1, symbol, pos, None)

----------------------------------------------------------------------------
(* Identifiers.  An *ast.Ident is [id, Name, Pos, Obj]: id is the node's     *)
(* identity (what == on two *ast.Ident compares), Obj is [nil, Kind, Names]: *)
(* whether ident.Obj is nil and, when it is not, the kind of ident.Obj.Decl  *)
(* and the identities of that spec's Names.                                  *)

NilObj == [nil |-> TRUE, Kind |-> "none", Names |-> <<>>]
Obj(kind, names) == [nil |-> FALSE, Kind |-> kind, Names |-> names]

\* the index of the first name that is ident, 0 when the loop ends without one
RECURSIVE IndexOf(_, _, _)
IndexOf(names, i, id) ==
    IF i > Len(names) THEN 0
    ELSE IF names[i] = id THEN i
    ELSE IndexOf(names, i + 1, id)

\* isDeclaration, were every name of a value spec a declaration
isDeclarationAnyName(ident) ==
    IF ident.Obj.nil THEN FALSE
    ELSE CASE ident.Obj.Kind = "ValueSpec" -> IndexOf(ident.Obj.Names, 1, ident.id) # 0
           [] ident.Obj.Kind = "Field" -> ident.id = ident.Obj.Names[1]
           [] OTHER -> FALSE

\* isDeclaration
isDeclaration(ident) ==
    IF ident.Obj.nil THEN FALSE
    ELSE CASE ident.Obj.Kind = "ValueSpec" -> IndexOf(ident.Obj.Names, 1, ident.id) = 1
           [] ident.Obj.Kind = "Field" -> ident.id = ident.Obj.Names[1]
           [] OTHER -> FALSE

\* token.Position of an identifier: the absolute file name and where in it
Position(file, i) == [Filename |-> RepoPath \o file, Offset |-> i]

----------------------------------------------------------------------------
(* Maps: a Go map is a function on the set of its keys *)

EmptyMap == <<>>
hasKey(m, k) == k \in DOMAIN m
Put(m, k, v) == [x \in DOMAIN m \cup {k} |-> IF x = k THEN v ELSE m[x]]
\* m[k] = append(m[k], v), a missing key reading as the empty slice
AppendTo(m, k, v) == Put(m, k, Append(IF hasKey(m, k) THEN m[k] ELSE <<>>, v))

----------------------------------------------------------------------------
(* runner.findFlagIdents: the Preorder callback appends the identifier once  *)
(* for every entry of cfg.FlagSymbols equal to its name.                     *)

RECURSIVE MatchSymbols(_, _, _)
MatchSymbols(ident, symbols, k) ==
    IF k > Len(symbols) THEN <<>>
    ELSE (IF ident.Name = symbols[k] THEN <<ident>> ELSE <<>>)
         \o MatchSymbols(ident, symbols, k + 1)

RECURSIVE findFlagIdents(_, _, _)
findFlagIdents(idents, symbols, i) ==
    IF i > Len(idents) THEN <<>>
    ELSE MatchSymbols(idents[i], symbols, 1) \o findFlagIdents(idents, symbols, i + 1)

\* the comparison, were it not strict
BeforeOrAt(committedAt, now, cutoff) == committedAt <= now - cutoff
\* committedAt.Before(now.Add(-cutoff))
Before(committedAt, now, cutoff) == committedAt < now - cutoff

\* the arguments of one pass.Reportf
Diagnostic(usage, symbol, committedAt, cutoff) ==
    [at |-> usage.id, Pos |-> usage.Pos, symbol |-> symbol,
     committedAt |-> committedAt, cutoff |-> cutoff]

----------------------------------------------------------------------------
(* The inputs drawn *)

SeqsUpTo(S, n) == UNION {[1..k -> S] : k \in 0..n}

FilesFail == [FilesErr |-> TRUE, Files |-> <<>>]
Tree(files) == [FilesErr |-> FALSE, Files |-> files]
Commit(when, parents, tree) ==
    [When |-> when, Parents |-> parents, FilesErr |-> tree.FilesErr, Files |-> tree.Files]

\* What a commit can hold of FileOne, beside a FileTwo that holds both flags:
\* an unreadable file list, no FileOne, an unreadable FileOne, FileOne with
\* FlagA only, FileOne with both flags.
Trees ==
    { FilesFail,
      Tree(<<File(FileTwo, FALSE, TextAB)>>),
      Tree(<<File(FileTwo, FALSE, TextAB), File(FileOne, TRUE, <<>>)>>),
      Tree(<<File(FileTwo, FALSE, TextAB), File(FileOne, FALSE, TextA)>>),
      Tree(<<File(FileTwo, FALSE, TextAB), File(FileOne, FALSE, TextAB)>>) }

\* a commit has no parent, one, or two in either order, all of them older commits
ParentLists(c, n) ==
    {<<>>} \cup {<<a>> : a \in (c + 1)..n}
           \cup {p \in ((c + 1)..n) \X ((c + 1)..n) : p[1] # p[2]}

\* a history of n commits with these author times, parents and trees
History(n, w, ps, t) == [c \in 1..n |-> Commit(w[c], ps[c], t[c])]
\* the parents of a history of n commits without a merge
Chain(n) == [c \in 1..n |-> IF c < n THEN <<c + 1>> ELSE <<>>]

\* The repositories a run is checked on: two commits, HEAD of time 2 on a
\* parent of time 1, each file with one of its histories (HEAD first).
FileOneStories ==
    { <<"both", "both">>, <<"both", "a">>, <<"both", "none">>,
      <<"both", "broken">>, <<"none", "none">> }
FileTwoStories == { <<"a", "a">>, <<"none", "none">> }
Blob(file, what) ==
    CASE what = "none" -> <<>>
      [] what = "broken" -> <<File(file, TRUE, <<>>)>>
      [] what = "a" -> <<File(file, FALSE, TextA)>>
      [] what = "both" -> <<File(file, FALSE, TextAB)>>
RunRepos ==
    { << Commit(2, <<2>>, Tree(Blob(FileTwo, two[1]) \o Blob(FileOne, one[1]))),
         Commit(1, <<>>, Tree(Blob(FileTwo, two[2]) \o Blob(FileOne, one[2]))) >> :
        one \in FileOneStories, two \in FileTwoStories }

\* the identifiers a package is drawn from: name, file and role in its spec
Shape(name, file, role) == [Name |-> name, File |-> file, Role |-> role]
Shapes ==
    { Shape(FlagA, FileOne, "var"), Shape(FlagA, FileTwo, "field"),
      Shape(FlagA, FileOne, "use"), Shape(FlagA, FileOne, "later"),
      Shape(FlagB, FileOne, "var"), Shape(FlagB, FileOne, "use") }
\* the i-th identifier of the package: a var or a field declares it alone,
\* a later name follows another name (identity 0) in its spec, a use is bound
\* to a spec that names another identifier
MakeIdent(i, shape) ==
    [id |-> i, Name |-> shape.Name, Pos |-> Position(shape.File, i),
     Obj |-> CASE shape.Role = "var" -> Obj("ValueSpec", <<i>>)
               [] shape.Role = "field" -> Obj("Field", <<i>>)
               [] shape.Role = "later" -> Obj("ValueSpec", <<0, i>>)
               [] shape.Role = "use" -> Obj("ValueSpec", <<0>>)]
Package(shapes) == [i \in 1..Len(shapes) |-> MakeIdent(i, shapes[i])]
Packages == {Package(sh) : sh \in SeqsUpTo(Shapes, MaxIdents)}

Configs == [FlagSymbols : {<<FlagA, FlagB>>, <<FlagA, FlagA>>}, Cutoff : {0, 1}]

\* every name list of distinct identities 1..MaxNames
NameLists ==
    { ns \in SeqsUpTo(1..MaxNames, MaxNames) :
        ns # <<>> /\ \A i, j \in 1..Len(ns) : i # j => ns[i] # ns[j] }
\* an identifier and the spec it is bound to: identity 0 is in no name list
Probes ==
    { [id |-> i, Name |-> n, Pos |-> Position(FileOne, i), Obj |-> o] :
        i \in 0..MaxNames, n \in {FlagA, FlagB},
        o \in {NilObj} \cup { Obj(k, ns) : k \in {"ValueSpec", "Field", "TypeSpec"},
                                            ns \in NameLists } }

----------------------------------------------------------------------------
(* The state *)

Locals0 ==
    [identifiers |-> <<>>, next |-> 1, declarationCommitTimes |-> EmptyMap,
     usagesByFlag |-> EmptyMap, todo |-> {}, err |-> FALSE]
Trace0 == [walks |-> <<>>, nowAt |-> EmptyMap]
NoQuery == [asked |-> FALSE, symbol |-> <<>>, pos |-> Position(<<>>, 0)]
Query(symbol, pos) == [asked |-> TRUE, symbol |-> symbol, pos |-> pos]
NoAnswer == [done |-> FALSE, result |-> None]
NoProbe == [set |-> FALSE, ident |-> MakeIdent(0, Shape(<<>>, <<>>, "use"))]
NoVerdict == [done |-> FALSE, isDecl |-> FALSE]

\* nothing but a package to analyse
InitRun ==
    /\ repo \in RunRepos
    /\ cfg \in Configs
    /\ unit \in Packages
    /\ pc = "idle"
    /\ loc = Locals0
    /\ reported = <<>>
    /\ clock = 2
    /\ pass = 0
    /\ trace = Trace0
    /\ query = NoQuery
    /\ answer = NoAnswer
    /\ probe = NoProbe
    /\ verdict = NoVerdict

\* the packages with two flags: FlagA declared and used, FlagB declared and
\* used or not
TwoFlagPackages ==
    { Package(<<Shape(FlagA, fa, "var"), Shape(FlagA, FileOne, "use"),
                Shape(FlagB, FileOne, "var"), Shape(last, FileOne, "use")>>) :
        fa \in {FileOne, FileTwo}, last \in {FlagA, FlagB} }

InitTwoFlags ==
    /\ repo \in RunRepos
    /\ cfg \in {c \in Configs : c.FlagSymbols = <<FlagA, FlagB>>}
    /\ unit \in TwoFlagPackages
    /\ pc = "idle"
    /\ loc = Locals0
    /\ reported = <<>>
    /\ clock = 2
    /\ pass = 0
    /\ trace = Trace0
    /\ query = NoQuery
    /\ answer = NoAnswer
    /\ probe = NoProbe
    /\ verdict = NoVerdict

\* nothing but one call of timeCommitted, for a flag declared in FileOne
InitQuery ==
    /\ query \in {Query(symbol, Position(FileOne, 1)) : symbol \in {FlagA, FlagB}}
    /\ answer = NoAnswer
    /\ cfg = [FlagSymbols |-> <<query.symbol>>, Cutoff |-> 0]
    /\ unit = <<>>
    /\ pc = "idle"
    /\ loc = Locals0
    /\ reported = <<>>
    /\ clock = 2
    /\ pass = 0
    /\ trace = Trace0
    /\ probe = NoProbe
    /\ verdict = NoVerdict

\* every history of up to MaxCommits commits, each reachable from HEAD
InitResolver ==
    /\ \E n \in 1..MaxCommits :
         \E w \in [1..n -> 1..MaxWhen], t \in [1..n -> Trees],
            ps \in [1..n -> ParentLists(1, n)] :
              /\ \A c \in 1..n : ps[c] \in ParentLists(c, n)
              /\ Len(Log(History(n, w, ps, t))) = n
              /\ repo = History(n, w, ps, t)
    /\ InitQuery

\* every history of up to MaxCommits commits without a merge
InitLinear ==
    /\ \E n \in 1..MaxCommits :
         \E w \in [1..n -> 1..MaxWhen], t \in [1..n -> Trees] :
              repo = History(n, w, Chain(n), t)
    /\ InitQuery

\* nothing but one call of isDeclaration
InitDecl ==
    /\ probe \in {[set |-> TRUE, ident |-> p] : p \in Probes}
    /\ verdict = NoVerdict
    /\ repo = <<>>
    /\ cfg = [FlagSymbols |-> <<FlagA, FlagB>>, Cutoff |-> 0]
    /\ unit = <<>>
    /\ pc = "idle"
    /\ loc = Locals0
    /\ reported = <<>>
    /\ clock = 2
    /\ pass = 0
    /\ trace = Trace0
    /\ query = NoQuery
    /\ answer = NoAnswer

----------------------------------------------------------------------------
(* The run, runner.run, step by step *)

\* git.PlainOpen fails: run returns the error
OpenFails ==
    /\ pc \in {"idle", "done"}
    /\ pass < MaxPasses
    /\ pass' = pass + 1
    /\ loc' = [Locals0 EXCEPT !.err = TRUE]
    /\ reported' = <<>>
    /\ trace' = [trace EXCEPT !.nowAt = EmptyMap]
    /\ pc' = "done"
    /\ UNCHANGED <<repo, cfg, unit, clock, query, answer, probe, verdict>>

\* the driver calls run on the package: the repository opens and
\* findFlagIdents collects the identifiers
StartPass ==
    /\ pc \in {"idle", "done"}
    /\ pass < MaxPasses
    /\ pass' = pass + 1
    /\ loc' = [Locals0 EXCEPT !.identifiers = findFlagIdents(unit, cfg.FlagSymbols, 1)]
    /\ reported' = <<>>
    /\ trace' = [trace EXCEPT !.nowAt = EmptyMap]
    /\ pc' = "classify"
    /\ UNCHANGED <<repo, cfg, unit, clock, query, answer, probe, verdict>>

\* one round of the loop over identifiers
ClassifyStep ==
    /\ pc = "classify"
    /\ loc.next <= Len(loc.identifiers)
    /\ LET id == loc.identifiers[loc.next]
           committed == timeCommitted(repo, id.Name, id.Pos)
           t == OrEmpty(committed)
       IN  IF isDeclaration(id) /\ ~hasKey(loc.declarationCommitTimes, id.Name)
           THEN /\ loc' = [loc EXCEPT
                            !.next = @ + 1,
                            !.declarationCommitTimes =
                                IF ~IsZero(t) THEN Put(@, id.Name, t) ELSE @]
                /\ trace' = [trace EXCEPT !.walks = Append(@,
                                [symbol |-> id.Name, Filename |-> id.Pos.Filename,
                                 at |-> id.id, pass |-> pass, result |-> committed])]
           ELSE /\ loc' = [loc EXCEPT
                            !.next = @ + 1,
                            !.usagesByFlag = AppendTo(@, id.Name, id)]
                /\ UNCHANGED trace
    /\ UNCHANGED <<repo, cfg, unit, pc, reported, clock, pass, query, answer,
                   probe, verdict>>

\* the loop over identifiers ends; the range over declarationCommitTimes begins
EndClassify ==
    /\ pc = "classify"
    /\ loc.next > Len(loc.identifiers)
    /\ loc' = [loc EXCEPT !.todo = DOMAIN loc.declarationCommitTimes]
    /\ pc' = "evaluate"
    /\ UNCHANGED <<repo, cfg, unit, reported, clock, pass, trace, query, answer,
                   probe, verdict>>

\* one round of the range over declarationCommitTimes, in the map's order,
\* for a symbol without usages
SkipSymbol ==
    /\ pc = "evaluate"
    /\ \E symbol \in loc.todo :
        /\ ~hasKey(loc.usagesByFlag, symbol)
        /\ loc' = [loc EXCEPT !.todo = @ \ {symbol}]
    /\ UNCHANGED <<repo, cfg, unit, pc, reported, clock, pass, trace, query,
                   answer, probe, verdict>>

\* one round of the range over declarationCommitTimes, in the map's order,
\* for a symbol with usages: time.Now() returns now
EvaluateSymbol ==
    /\ pc = "evaluate"
    /\ \E symbol \in loc.todo, now \in clock..MaxClock :
        LET committedAt == loc.declarationCommitTimes[symbol]
            usages == loc.usagesByFlag[symbol]
        IN  /\ hasKey(loc.usagesByFlag, symbol)
            /\ clock' = now
            /\ trace' = [trace EXCEPT !.nowAt = Put(@, symbol, now)]
            /\ reported' =
                 IF Before(committedAt, now, cfg.Cutoff)
                 THEN reported \o [k \in 1..Len(usages) |->
                        Diagnostic(usages[k], symbol, committedAt, cfg.Cutoff)]
                 ELSE reported
            /\ loc' = [loc EXCEPT !.todo = @ \ {symbol}]
    /\ UNCHANGED <<repo, cfg, unit, pc, pass, query, answer, probe, verdict>>

\* run returns
Return ==
    /\ pc = "evaluate"
    /\ loc.todo = {}
    /\ pc' = "done"
    /\ UNCHANGED <<repo, cfg, unit, loc, reported, clock, pass, trace, query,
                   answer, probe, verdict>>

\* the call timeCommitted(repo, symbol, pos)
Resolve ==
    /\ query.asked
    /\ ~answer.done
    /\ answer' = [done |-> TRUE, result |-> timeCommitted(repo, query.symbol, query.pos)]
    /\ UNCHANGED <<repo, cfg, unit, pc, loc, reported, clock, pass, trace, query,
                   probe, verdict>>

\* the call isDeclaration(ident)
Classify ==
    /\ probe.set
    /\ ~verdict.done
    /\ verdict' = [done |-> TRUE, isDecl |-> isDeclaration(probe.ident)]
    /\ UNCHANGED <<repo, cfg, unit, pc, loc, reported, clock, pass, trace, query,
                   answer, probe>>

NextRun ==
    \/ OpenFails
    \/ StartPass
    \/ ClassifyStep
    \/ EndClassify
    \/ SkipSymbol
    \/ EvaluateSymbol
    \/ Return

\* the analysis of a package
Spec == InitRun /\ [][NextRun]_vars
\* the analysis of a package that declares and uses two flags
SpecTwoFlags == InitTwoFlags /\ [][NextRun]_vars
\* timeCommitted on every history
SpecResolver == InitResolver /\ [][Resolve]_vars
\* timeCommitted on every history without a merge
SpecLinear == InitLinear /\ [][Resolve]_vars
\* isDeclaration on every identifier
SpecDecl == InitDecl /\ [][Classify]_vars

----------------------------------------------------------------------------
(* What the claims speak of *)

\* the file of the query in commit c, as the commit holds it
RelPath == SubSeq(query.pos.Filename, Len(RepoPath) + 1, Len(query.pos.Filename))
ReadFails(c) ==
    \/ repo[c].FilesErr
    \/ \E k \in 1..Len(repo[c].Files) :
          repo[c].Files[k].Name = RelPath /\ repo[c].Files[k].Err
\* commit c has a file at the path whose text contains the symbol
Matches(c) ==
    /\ ~repo[c].FilesErr
    /\ \E k \in 1..Len(repo[c].Files) :
          /\ repo[c].Files[k].Name = RelPath
          /\ ~repo[c].Files[k].Err
          /\ Contains(repo[c].Files[k].Text, query.symbol)
NoReadFails == \A c \in 1..Len(repo) : ~ReadFails(c)
Largest(S) == CHOOSE x \in S : \A y \in S : y <= x

\* the repository with every commit that cannot be read emptied of its files
Healed ==
    [c \in 1..Len(repo) |->
        IF ReadFails(c) THEN [repo[c] EXCEPT !.FilesErr = FALSE, !.Files = <<>>]
        ELSE repo[c]]

\* no commit is older than a parent of it
TimesOrdered ==
    \A c \in 1..Len(repo) : \A k \in 1..Len(repo[c].Parents) :
        repo[repo[c].Parents[k]].When <= repo[c].When

\* C1: when timeCommitted returns a time T, no commit reachable from HEAD that
\* holds the symbol at the path has an author time before T.  Stated for the
\* histories every commit of which can be read and whose author times are
\* ordered like the commits, the cases of the claim that owe nothing to a
\* read failure or to a clock.
C1_Monotonic ==
    (answer.done /\ answer.result.some /\ NoReadFails /\ TimesOrdered) =>
        \A c \in 1..Len(repo) : Matches(c) => repo[c].When >= answer.result.val

\* C7: a commit that cannot be read contributes no match and does not stop the
\* walk: the result is that of the same walk over the history in which the
\* failing commits do not hold the file.
C7_ReadErrorsSkipped ==
    answer.done => answer.result = timeCommitted(Healed, query.symbol, query.pos)

\* In a history without a merge commit c is c - 1 steps from HEAD.
\* the symbol is at HEAD, was absent below it, and was there before that
Reintroduced ==
    /\ Matches(1)
    /\ \E j, k \in 1..Len(repo) : j < k /\ ~Matches(j) /\ Matches(k)
\* the oldest commit of the block of matching commits that reaches HEAD
HeadBlockEnd == Largest({k \in 1..Len(repo) : \A c \in 1..k : Matches(c)})
\* the commits the walk visits: those above the first that cannot be read
Visited == {c \in 1..Len(repo) : \A b \in 1..c : ~ReadFails(b)}

\* C8 as claimed: after a removal and a reintroduction timeCommitted returns
\* the time of the earliest commit of the block that reaches HEAD.  Stated for
\* the histories every commit of which can be read and whose author times are
\* ordered like the commits.
C8_ResetAtReintroduction ==
    (answer.done /\ NoReadFails /\ TimesOrdered /\ Reintroduced) =>
        answer.result = Some(repo[HeadBlockEnd].When)

\* C8 as amended: timeCommitted returns the time of the oldest commit the walk
\* visits that holds the symbol, so after a removal and a reintroduction the
\* time of the earliest commit of the older block; none when no visited
\* commit holds it.
C8_OldestMatchWins ==
    answer.done =>
        LET ms == {c \in Visited : Matches(c)}
        IN  answer.result = IF ms = {} THEN None ELSE Some(repo[Largest(ms)].When)

\* a removal and a reintroduction were resolved to the older block, whose time
\* is before that of the block at HEAD
C8_Witness ==
    /\ answer.done
    /\ NoReadFails
    /\ Reintroduced
    /\ Len(repo) = 3
    /\ Matches(3) /\ ~Matches(2)
    /\ repo[3].When < repo[1].When
    /\ answer.result = Some(repo[3].When)

\* C6: of a value spec's names the first is a declaration and no later one is,
\* whatever its name; an identifier that is none of the names of its spec, or
\* has no object, is no declaration.
C6_FirstNameOnly ==
    verdict.done =>
        LET ident == probe.ident
            names == ident.Obj.Names
            at == {k \in 1..Len(names) : names[k] = ident.id}
        IN  /\ (~ident.Obj.nil /\ ident.Obj.Kind = "ValueSpec" /\ 1 \in at)
                => verdict.isDecl
            /\ (~ident.Obj.nil /\ ident.Obj.Kind = "ValueSpec" /\ at # {} /\ 1 \notin at)
                => ~verdict.isDecl
            /\ (ident.Obj.nil \/ at = {}) => ~verdict.isDecl

\* the second name of var A, B = f(), itself a configured symbol, was classified
C6_Witness ==
    /\ verdict.done
    /\ ~verdict.isDecl
    /\ probe.ident.Name = FlagB
    /\ probe.ident.Obj.Kind = "ValueSpec"
    /\ Len(probe.ident.Obj.Names) = 2
    /\ probe.ident.Obj.Names[2] = probe.ident.id

----------------------------------------------------------------------------
(* What the claims about a run speak of *)

dct == loc.declarationCommitTimes
\* the occurrences of symbol s in the package: all, declarations, usages
Occurrences(s) == {i \in 1..Len(unit) : unit[i].Name = s}
Declarations(s) == {i \in Occurrences(s) : isDeclaration(unit[i])}
Usages(s) == Occurrences(s) \ Declarations(s)
Configured == {cfg.FlagSymbols[k] : k \in 1..Len(cfg.FlagSymbols)}
Smallest(S) == CHOOSE x \in S : \A y \in S : x <= y
\* the diagnostics reported for symbol s, at identifier i
DiagnosticsOf(s) == {k \in 1..Len(reported) : reported[k].symbol = s}
DiagnosticsAt(i) == {k \in 1..Len(reported) : reported[k].at = i}
\* the history walks of the current pass
WalksNow == {k \in 1..Len(trace.walks) : trace.walks[k].pass = pass}
\* symbol s has a known commit time in this run and it is before the
\* now of its comparison less the cutoff
StaleNow(s) ==
    /\ hasKey(dct, s)
    /\ hasKey(trace.nowAt, s)
    /\ dct[s] < trace.nowAt[s] - cfg.Cutoff

\* C2: when run has returned, a usage of a configured symbol s has a
\* diagnostic exactly when s has a known commit time T in this run and
\* T < now - Cutoff, now being the time read for s; every diagnostic carries a
\* time that a history walk of this run returned for its symbol, so a symbol
\* of unknown commit time and a symbol committed less than Cutoff ago have none.
C2_StaleUsagesReported ==
    pc = "done" =>
        /\ \A s \in Configured : \A i \in Usages(s) :
              (DiagnosticsAt(i) # {}) <=> StaleNow(s)
        /\ \A k \in 1..Len(reported) :
              /\ StaleNow(reported[k].symbol)
              /\ reported[k].committedAt = dct[reported[k].symbol]
              /\ \E w \in WalksNow :
                    /\ trace.walks[w].symbol = reported[k].symbol
                    /\ trace.walks[w].result = Some(reported[k].committedAt)

\* a run has reported a usage of FlagA, committed before now - Cutoff
C2_Witness ==
    /\ pc = "done"
    /\ \E i \in Usages(FlagA) : DiagnosticsAt(i) # {} /\ unit[i].Obj.Names = <<0>>
    /\ trace.nowAt[FlagA] - cfg.Cutoff > dct[FlagA]

\* no symbol is configured twice
NoDuplicates ==
    \A j, k \in 1..Len(cfg.FlagSymbols) :
        cfg.FlagSymbols[j] = cfg.FlagSymbols[k] => j = k

\* C3: a configured symbol that occurs in the package as declarations only has
\* no diagnostic, and no diagnostic is reported at a declaration.  Stated for
\* the configurations that name no symbol twice.
C3_DeclarationsNotReported ==
    (pc = "done" /\ NoDuplicates) =>
        /\ \A s \in Configured : Usages(s) = {} => DiagnosticsOf(s) = {}
        /\ \A k \in 1..Len(reported) : ~isDeclaration(unit[reported[k].at])

\* C4: whatever the configured list, a stale symbol has exactly one diagnostic
\* at each of its usages, never two at one position.
C4_OnePerUsage ==
    pc = "done" =>
        \A s \in Configured : StaleNow(s) =>
            \A i \in Usages(s) : Cardinality(DiagnosticsAt(i)) = 1

\* C5: two requests for one (symbol, file) give one result and one history
\* walk, within a pass and from one pass to the next.  Stated for the
\* configurations that name no symbol twice.
C5_OneWalkPerKey ==
    NoDuplicates => \A i, j \in 1..Len(trace.walks) :
        (/\ trace.walks[i].symbol = trace.walks[j].symbol
         /\ trace.walks[i].Filename = trace.walks[j].Filename)
        => (trace.walks[i].result = trace.walks[j].result /\ i = j)

\* C9: of the declarations of a symbol only the first in traversal order is
\* resolved, and the commit time applied to the symbol is what resolving that
\* one returns, unknown included.
C9_FirstDeclarationWins ==
    /\ \A w \in WalksNow :
          trace.walks[w].at = Smallest(Declarations(trace.walks[w].symbol))
    /\ (pc = "done" /\ ~loc.err) =>
          \A s \in Configured : Declarations(s) # {} =>
              LET first == unit[Smallest(Declarations(s))]
                  r == timeCommitted(repo, s, first.Pos)
              IN  /\ hasKey(dct, s) <=> r.some
                  /\ r.some => dct[s] = r.val

\* C10: one run compares every symbol with one now: two symbols of the same
\* commit time, both used, are both reported or both not.
C10_OneNowPerRun ==
    pc = "done" =>
        \A s1, s2 \in DOMAIN trace.nowAt :
            dct[s1] = dct[s2] => (DiagnosticsOf(s1) = {} <=> DiagnosticsOf(s2) = {})

====
